---- MODULE Spec2Model ----
(***************************************************************************)
(* A model of covid_dashboard.py: the cached fetch of the two CSV          *)
(* resources, the wide-to-long reshape (process_data), the per-country     *)
(* day-over-day difference (calculate_daily_cases) and the render pass     *)
(* (main) that Streamlit re-runs top to bottom on every user interaction.  *)
(*                                                                         *)
(* A DataFrame is a sequence of rows (records); a country name is a        *)
(* number whose order is the order Python's sorted() gives the names.      *)
(***************************************************************************)
EXTENDS Integers, Sequences, FiniteSets, TLC

\* ------------------------------------------------------------------ bounds
MaxDates == 2      \* date columns of a raw table
MaxRows  == 2      \* rows (geographic units) of a raw table
MaxPermutedRows == 4   \* long tables up to this length are tried in every row order

\* --------------------------------------------------------- names and dates
\* The three names of the multiselect default, numbered in sorted() order
\* ("India" < "US" < "United Kingdom", code point order).
India         == 1
US            == 2
UnitedKingdom == 3
Countries     == {India, US, UnitedKingdom}

\* Column headers of the date columns, format M/D/YY.
HeaderPool ==
  << [m |-> 1,  d |-> 22, yy |-> 20],
     [m |-> 12, d |-> 31, yy |-> 19],
     [m |-> 1,  d |-> 23, yy |-> 20] >>

\* pd.to_datetime on an M/D/YY header: a calendar date, here the number
\* YYYYMMDD, which orders as the calendar does.
to_datetime(h) == (2000 + h.yy) * 10000 + h.m * 100 + h.d

\* ---------------------------------------------------------------- helpers
RECURSIVE SumSeq(_)
SumSeq(s) == IF s = <<>> THEN 0 ELSE Head(s) + SumSeq(Tail(s))

RECURSIVE SortedSeqOf(_)
\* The elements of a finite set of integers, ascending.
SortedSeqOf(S) ==
  IF S = {} THEN <<>>
  ELSE LET lo == CHOOSE x \in S : \A y \in S : x <= y
       IN  <<lo>> \o SortedSeqOf(S \ {lo})

Range(s) == {s[i] : i \in DOMAIN s}

InjectiveSeqs(S, n) ==
  {s \in [1..n -> S] : \A i, j \in 1..n : i # j => s[i] # s[j]}

\* ------------------------------------------------------------- raw tables
\* read_csv gives every column a distinct name.
HeaderSeqs ==
  UNION {InjectiveSeqs(Range(HeaderPool), n) : n \in 1..MaxDates}

\* The raw tables process_data is applied to on its own: rows of two
\* countries (one country may hold several rows), cells 0 or 1.
RawCountryPool == {India, US}
CellValues     == {0, 1}

RawRows(n) == [Country : RawCountryPool, cells : [1..n -> CellValues]]

RawTables ==
  UNION { [headers : {hs}, rows : UNION {[1..r -> RawRows(Len(hs))] : r \in 1..MaxRows}]
          : hs \in HeaderSeqs }

\* ----------------------------------------------------------- process_data
\* DataFrame.melt: one row per (input row, date column), column by column.
\* Province/State, Lat and Long ride along as id_vars and are dropped by
\* the groupby below; they are left out of the rows.
melt(df) ==
  LET R == Len(df.rows)
      N == Len(df.headers)
  IN  [k \in 1..(R * N) |->
         LET j == ((k - 1) \div R) + 1
             i == ((k - 1) % R) + 1
         IN  [Country |-> df.rows[i].Country,
              Date    |-> df.headers[j],
              Cases   |-> df.rows[i].cells[j]]]

\* df_melted['Date'] = pd.to_datetime(df_melted['Date'])
parse_dates(m) == [k \in DOMAIN m |-> [m[k] EXCEPT !.Date = to_datetime(@)]]

\* Cases of the rows of one (country, date) group, in row order.
GroupCases(m, c, d) ==
  LET sel == SelectSeq(m, LAMBDA r : r.Country = c /\ r.Date = d)
  IN  [k \in DOMAIN sel |-> sel[k].Cases]

\* .first() in place of .sum(): the first sub-national row only.
SumAgg_first(cases) == cases[1]

SumAgg(cases) == SumSeq(cases)

\* The melted rows in key order with the aggregation left out.
groupby_sum_noagg(m) ==
  SortSeq(m, LAMBDA a, b :
               \/ a.Country < b.Country
               \/ a.Country = b.Country /\ a.Date < b.Date)

\* groupby(['Country/Region','Date'])['Cases'].sum().reset_index(): one row
\* per key that occurs, keys ascending (country first, then date).
groupby_sum(m) ==
  LET cs == SortedSeqOf({m[k].Country : k \in DOMAIN m})
      DatesOf(c) == SortedSeqOf({m[k].Date : k \in {q \in DOMAIN m : m[q].Country = c}})
      RowsOf(c) == [i \in DOMAIN DatesOf(c) |->
                      [Country |-> c, Date |-> DatesOf(c)[i],
                       Cases |-> SumAgg(GroupCases(m, c, DatesOf(c)[i]))]]
      RECURSIVE Cat(_)
      Cat(i) == IF i > Len(cs) THEN <<>> ELSE RowsOf(cs[i]) \o Cat(i + 1)
  IN  Cat(1)

\* sorted(df_country['Country/Region'].unique())
country_list(dfc) == SortedSeqOf({dfc[k].Country : k \in DOMAIN dfc})

process_data(df) ==
  LET df_country == groupby_sum(parse_dates(melt(df)))
  IN  [df_country |-> df_country, countries |-> country_list(df_country)]

\* -------------------------------------------------- calculate_daily_cases
\* The orders in which a sort may leave rows of equal Date: sort_values uses
\* quicksort, which is not stable. tb ranks the countries within a tie.
TieBreaks == InjectiveSeqs(Countries, Cardinality(Countries))

RankIn(tb, c) == CHOOSE i \in DOMAIN tb : tb[i] = c

\* df.sort_values('Date'): a new frame, rows ascending by Date.
sort_values(df, tb) ==
  SortSeq(df, LAMBDA a, b :
                \/ a.Date < b.Date
                \/ a.Date = b.Date /\ RankIn(tb, a.Country) < RankIn(tb, b.Country))

\* ['Cases'].diff() without the groupby: the previous row, whatever its country.
group_diff_ungrouped(s) ==
  [k \in DOMAIN s |-> IF k = 1 THEN <<>> ELSE <<s[k].Cases - s[k - 1].Cases>>]

\* groupby('Country/Region')['Cases'].diff(): the difference to the previous
\* row of the same country, in row order; no value (NaN, here <<>>) for the
\* first row of a country.
group_diff(s) ==
  [k \in DOMAIN s |->
     LET P == {p \in 1..(k - 1) : s[p].Country = s[k].Country}
     IN  IF P = {} THEN <<>>
         ELSE LET prev == CHOOSE p \in P : \A q \in P : q <= p
              IN  <<s[k].Cases - s[prev].Cases>>]

\* .fillna(0)
fillna(x, v) == IF x = <<>> THEN v ELSE x[1]

\* .dropna() in place of .fillna(0): the first row of each country is lost.
calculate_daily_cases_dropna(df, tb) ==
  LET s == sort_values(df, tb)
      d == group_diff(s)
      kept == SelectSeq([k \in DOMAIN s |->
                           [Country |-> s[k].Country, Date |-> s[k].Date,
                            Cases |-> s[k].Cases, Daily |-> d[k]]],
                        LAMBDA r : r.Daily # <<>>)
  IN  [k \in DOMAIN kept |-> [kept[k] EXCEPT !.Daily = @[1]]]

calculate_daily_cases(df, tb) ==
  LET s == sort_values(df, tb)
      d == group_diff(s)
  IN  [k \in DOMAIN s |->
         [Country |-> s[k].Country, Date |-> s[k].Date,
          Cases |-> s[k].Cases, Daily |-> fillna(d[k], 0)]]

\* ------------------------------------------------------------- fetch cache
CONFIRMED_URL == "time_series_covid19_confirmed_global.csv"
DEATHS_URL    == "time_series_covid19_deaths_global.csv"
URLs          == {CONFIRMED_URL, DEATHS_URL}

\* @st.cache_data(ttl=3600)
TTL == 3600

MaxTicks == 2      \* clock advances the model follows
TickStep == 1800   \* seconds per clock advance

\* What fetch_data returns: None, or the parsed frame.
None     == [ok |-> FALSE]
Some(df) == [ok |-> TRUE, df |-> df]
Unset    == [ok |-> FALSE, unset |-> TRUE]

NoEntry == [present |-> FALSE]

\* An entry still served when its age equals the time-to-live.
cache_fresh_inclusive(e, t) == e.present /\ t - e.t <= TTL

\* st.cache_data looks the call up by its argument; an entry is served while
\* its age is under the time-to-live.
cache_fresh(e, t) == e.present /\ t - e.t < TTL

\* What the two endpoints may serve: one row per country of a non-empty set
\* of countries, two date columns (in calendar order or not).
ServedHeaderSeqs ==
  { <<HeaderPool[1], HeaderPool[3]>>, <<HeaderPool[3], HeaderPool[2]>> }

ServedCell(c, j) == 2 * c + j

ServedTables ==
  { [headers |-> hs,
     rows    |-> [i \in 1..Cardinality(S) |->
                    [Country |-> SortedSeqOf(S)[i],
                     cells   |-> [j \in DOMAIN hs |-> ServedCell(SortedSeqOf(S)[i], j)]]]]
    : hs \in ServedHeaderSeqs, S \in (SUBSET Countries) \ {{}} }

\* pd.read_csv(url) inside try/except: the frame, or None when the read or
\* the parse raises.
ReadOutcomes == {None} \cup {Some(t) : t \in ServedTables}

\* ------------------------------------------------------------------- main
\* default=["US", "India", "United Kingdom"]
DefaultSelection == {US, India, UnitedKingdom}

MetricTypes == {"Daily", "Cumulative"}

\* "and" in place of "or".
load_failed_both(c, d) == ~c.ok /\ ~d.ok

\* if confirmed_df is None or deaths_df is None
load_failed(c, d) == ~c.ok \/ ~d.ok

\* "is None" in place of "not": an empty list passes.
no_selection_is_none(sel) == FALSE

\* if not selected_countries
no_selection(sel) == sel = <<>>

\* What st.multiselect can return: options in the order the user picked them.
Selections(opts) ==
  UNION {InjectiveSeqs(Range(opts), n) : n \in 0..Len(opts)}

\* df[df['Country/Region'].isin(selected_countries)]
isin_filter(df, sel) == SelectSeq(df, LAMBDA r : r.Country \in Range(sel))

\* df[df['Country/Region'] == country]
rows_of(df, c) == SelectSeq(df, LAMBDA r : r.Country = c)

\* ['Cases'].iloc[-1]; raises IndexError on an empty selection
iloc_last_ok(df, c) == rows_of(df, c) # <<>>
iloc_last(df, c) == rows_of(df, c)[Len(rows_of(df, c))].Cases

RECURSIVE format_count(_)
\* f"{x:,.0f}" of a whole number: its digits in groups of three.
format_count(x) ==
  IF x < 1000 THEN <<x>> ELSE format_count(x \div 1000) \o <<x % 1000>>

metric_block(cf, dfl, c) ==
  [label |-> c,
   value |-> format_count(iloc_last(cf, c)),
   delta |-> format_count(iloc_last(dfl, c))]

line_chart(df, mt, what) ==
  [what |-> what, y |-> IF mt = "Daily" THEN "Daily" ELSE "Cases", data |-> df]

BlankScreen ==
  [errors |-> 0, warning |-> FALSE, charts |-> <<>>, metrics |-> <<>>,
   exception |-> "none"]

VARIABLES
  now,                    \* the clock st.cache_data reads
  cache,                  \* fetch_data's cache: URL -> entry
  pc,                     \* where main is
  net,                    \* URLs read over the network in this pass
  ran,                    \* steps of main run in this pass
  confirmed_df, deaths_df,
  confirmed_country_df, deaths_country_df, countries,
  selected_countries, metric_type,
  confirmed_filtered, deaths_filtered,
  screen,                 \* what this pass has put on the page
  raw, df_country, clist, daily_in, daily_out, tpc

rvars == <<now, cache, pc, net, ran, confirmed_df, deaths_df,
           confirmed_country_df, deaths_country_df, countries,
           selected_countries, metric_type, confirmed_filtered,
           deaths_filtered, screen>>
tvars == <<raw, df_country, clist, daily_in, daily_out, tpc>>
vars  == <<rvars, tvars>>

locals == <<confirmed_df, deaths_df, confirmed_country_df, deaths_country_df,
            countries, selected_countries, metric_type, confirmed_filtered,
            deaths_filtered>>

RenderInit ==
  /\ now = 0
  /\ cache = [u \in URLs |-> NoEntry]
  /\ pc = "fetch_confirmed"
  /\ net = {}
  /\ ran = {}
  /\ confirmed_df = Unset /\ deaths_df = Unset
  /\ confirmed_country_df = <<>> /\ deaths_country_df = <<>>
  /\ countries = <<>>
  /\ selected_countries = <<>> /\ metric_type = "Daily"
  /\ confirmed_filtered = <<>> /\ deaths_filtered = <<>>
  /\ screen = BlankScreen

TransformIdle ==
  /\ raw = [headers |-> <<>>, rows |-> <<>>]
  /\ df_country = <<>> /\ clist = <<>>
  /\ daily_in = <<>> /\ daily_out = <<>>
  /\ tpc = "off"

Init == RenderInit /\ TransformIdle

\* Time passes between passes and while a fetch is under way.
Tick ==
  /\ pc \in {"done", "fetch_deaths"}
  /\ now + TickStep <= MaxTicks * TickStep
  /\ now' = now + TickStep
  /\ UNCHANGED <<cache, pc, net, ran, locals, screen, tvars>>

\* A user interaction: Streamlit runs the script again from the top.
Rerun ==
  /\ pc = "done"
  /\ pc' = "fetch_confirmed"
  /\ net' = {} /\ ran' = {}
  /\ confirmed_df' = Unset /\ deaths_df' = Unset
  /\ confirmed_country_df' = <<>> /\ deaths_country_df' = <<>>
  /\ countries' = <<>>
  /\ selected_countries' = <<>> /\ metric_type' = "Daily"
  /\ confirmed_filtered' = <<>> /\ deaths_filtered' = <<>>
  /\ screen' = BlankScreen
  /\ UNCHANGED <<now, cache, tvars>>

\* fetch_data(url) under st.cache_data: r is what the call returns. On a hit
\* the stored value comes back and the st.error recorded with it is replayed;
\* on a miss the body runs and its return value is stored, None included.
fetch_data(u, r) ==
  /\ IF cache_fresh(cache[u], now)
     THEN /\ r = cache[u].value
          /\ UNCHANGED <<cache, net>>
     ELSE /\ r \in ReadOutcomes
          /\ cache' = [cache EXCEPT ![u] = [present |-> TRUE, t |-> now, value |-> r]]
          /\ net' = net \cup {u}
  /\ screen' = [screen EXCEPT !.errors = IF r.ok THEN @ ELSE @ + 1]

FetchConfirmed ==
  /\ pc = "fetch_confirmed"
  /\ \E r \in ReadOutcomes :
       /\ fetch_data(CONFIRMED_URL, r)
       /\ confirmed_df' = r
  /\ pc' = "fetch_deaths"
  /\ UNCHANGED <<now, ran, deaths_df, confirmed_country_df, deaths_country_df,
                 countries, selected_countries, metric_type,
                 confirmed_filtered, deaths_filtered, tvars>>

FetchDeaths ==
  /\ pc = "fetch_deaths"
  /\ \E r \in ReadOutcomes :
       /\ fetch_data(DEATHS_URL, r)
       /\ deaths_df' = r
  /\ pc' = "check"
  /\ UNCHANGED <<now, ran, confirmed_df, confirmed_country_df, deaths_country_df,
                 countries, selected_countries, metric_type,
                 confirmed_filtered, deaths_filtered, tvars>>

\* Lines 72-74.
CheckLoaded ==
  /\ pc = "check"
  /\ IF load_failed(confirmed_df, deaths_df)
     THEN /\ screen' = [screen EXCEPT !.errors = @ + 1]
          /\ pc' = "done"
     ELSE /\ pc' = "process"
          /\ UNCHANGED screen
  /\ UNCHANGED <<now, cache, net, ran, locals, tvars>>

\* Lines 77-82. process_data(None) raises on None.melt.
Transform ==
  /\ pc = "process"
  /\ IF confirmed_df.ok /\ deaths_df.ok
     THEN \E tb1, tb2 \in TieBreaks :
            LET pcf == process_data(confirmed_df.df)
                pdt == process_data(deaths_df.df)
            IN  /\ confirmed_country_df' = calculate_daily_cases(pcf.df_country, tb1)
                /\ deaths_country_df' = calculate_daily_cases(pdt.df_country, tb2)
                /\ countries' = pcf.countries
                /\ ran' = ran \cup {"process_data", "calculate_daily_cases"}
                /\ pc' = "widgets"
                /\ UNCHANGED screen
     ELSE /\ screen' = [screen EXCEPT !.exception = "AttributeError"]
          /\ ran' = ran \cup {"process_data"}
          /\ pc' = "done"
          /\ UNCHANGED <<confirmed_country_df, deaths_country_df, countries>>
  /\ UNCHANGED <<now, cache, net, confirmed_df, deaths_df, selected_countries,
                 metric_type, confirmed_filtered, deaths_filtered, tvars>>

\* Lines 85-99. st.multiselect raises when a default is not among the options.
Widgets ==
  /\ pc = "widgets"
  /\ IF DefaultSelection \subseteq Range(countries)
     THEN /\ selected_countries' \in Selections(countries)
          /\ metric_type' \in MetricTypes
          /\ pc' = "validate"
          /\ UNCHANGED screen
     ELSE /\ screen' = [screen EXCEPT !.exception = "StreamlitAPIException"]
          /\ pc' = "done"
          /\ UNCHANGED <<selected_countries, metric_type>>
  /\ ran' = ran \cup {"widgets"}
  /\ UNCHANGED <<now, cache, net, confirmed_df, deaths_df, confirmed_country_df,
                 deaths_country_df, countries, confirmed_filtered,
                 deaths_filtered, tvars>>

\* Lines 101-103.
Validate ==
  /\ pc = "validate"
  /\ IF no_selection(selected_countries)
     THEN /\ screen' = [screen EXCEPT !.warning = TRUE]
          /\ pc' = "done"
     ELSE /\ pc' = "filter"
          /\ UNCHANGED screen
  /\ UNCHANGED <<now, cache, net, ran, locals, tvars>>

\* Lines 109-114.
Filter ==
  /\ pc = "filter"
  /\ confirmed_filtered' = isin_filter(confirmed_country_df, selected_countries)
  /\ deaths_filtered' = isin_filter(deaths_country_df, selected_countries)
  /\ ran' = ran \cup {"filter"}
  /\ pc' = "charts"
  /\ UNCHANGED <<now, cache, net, confirmed_df, deaths_df, confirmed_country_df,
                 deaths_country_df, countries, selected_countries, metric_type,
                 screen, tvars>>

\* Lines 117-145.
Charts ==
  /\ pc = "charts"
  /\ screen' = [screen EXCEPT !.charts =
                  << line_chart(confirmed_filtered, metric_type, "Cases"),
                     line_chart(deaths_filtered, metric_type, "Deaths") >>]
  /\ ran' = ran \cup {"charts"}
  /\ pc' = "stats"
  /\ UNCHANGED <<now, cache, net, locals, tvars>>

\* Lines 148-159: the blocks are rendered in list order until a lookup
\* raises. st.columns(0) raises.
Stats ==
  /\ pc = "stats"
  /\ LET n   == Len(selected_countries)
         bad == {i \in 1..n :
                   \/ ~iloc_last_ok(confirmed_filtered, selected_countries[i])
                   \/ ~iloc_last_ok(deaths_filtered, selected_countries[i])}
         upto == IF bad = {} THEN n
                 ELSE (CHOOSE i \in bad : \A q \in bad : i <= q) - 1
     IN  screen' =
           [screen EXCEPT
              !.metrics = [i \in 1..upto |->
                             metric_block(confirmed_filtered, deaths_filtered,
                                          selected_countries[i])],
              !.exception = IF n = 0 THEN "StreamlitAPIException"
                            ELSE IF bad # {} THEN "IndexError" ELSE @]
  /\ ran' = ran \cup {"stats"}
  /\ pc' = "done"
  /\ UNCHANGED <<now, cache, net, locals, tvars>>

Next ==
  \/ Tick
  \/ Rerun
  \/ FetchConfirmed
  \/ FetchDeaths
  \/ CheckLoaded
  \/ Transform
  \/ Widgets
  \/ Validate
  \/ Filter
  \/ Charts
  \/ Stats

Spec == Init /\ [][Next]_vars

\* ------------------------------------------- the two transforms on their own
\* process_data and calculate_daily_cases applied to every raw table within
\* the bounds, the long table handed to calculate_daily_cases in any row order.
TransformInit ==
  /\ RenderInit
  /\ raw \in RawTables
  /\ df_country = <<>> /\ clist = <<>>
  /\ daily_in = <<>> /\ daily_out = <<>>
  /\ tpc = "start"

\* The row orders a long table of n rows is handed over in: all of them for
\* a short table, the rotations and their reversals for a longer one.
RowOrders(n) ==
  IF n <= MaxPermutedRows
  THEN InjectiveSeqs(1..n, n)
  ELSE UNION { { [i \in 1..n |-> ((i - 1 + k) % n) + 1],
                 [i \in 1..n |-> n - ((i - 1 + k) % n)] } : k \in 0..(n - 1) }

ProcessData ==
  /\ tpc = "start"
  /\ df_country' = process_data(raw).df_country
  /\ clist' = process_data(raw).countries
  /\ tpc' = "processed"
  /\ UNCHANGED <<raw, daily_in, daily_out, rvars>>

Reorder ==
  /\ tpc = "processed"
  /\ \E p \in RowOrders(Len(df_country)) :
       daily_in' = [k \in DOMAIN df_country |-> df_country[p[k]]]
  /\ tpc' = "reordered"
  /\ UNCHANGED <<raw, df_country, clist, daily_out, rvars>>

CalculateDaily ==
  /\ tpc = "reordered"
  /\ \E tb \in TieBreaks : daily_out' = calculate_daily_cases(daily_in, tb)
  /\ tpc' = "done"
  /\ UNCHANGED <<raw, df_country, clist, daily_in, rvars>>

TransformNext ==
  \/ ProcessData
  \/ Reorder
  \/ CalculateDaily

TransformSpec == TransformInit /\ [][TransformNext]_vars

\* ================================================================ claims
RawCountries == {raw.rows[i].Country : i \in DOMAIN raw.rows}

Processed == tpc \in {"processed", "reordered", "done"}

RECURSIVE SumCells(_, _)
\* The sum of date column j over the raw rows with index in I.
SumCells(I, j) ==
  IF I = {} THEN 0
  ELSE LET i == CHOOSE x \in I : TRUE
       IN  raw.rows[i].cells[j] + SumCells(I \ {i}, j)

\* C5: the long table of process_data has exactly N rows for every country
\* of the raw table (N its number of date columns), exactly one for each
\* (country, date) pair, however many rows the country has in the raw table,
\* and none for any other country; the country list is the set of the raw
\* table's country names, strictly ascending (sorted, no duplicate).
C5_LongShape ==
  Processed =>
    /\ \A c \in RawCountries :
         /\ Cardinality({k \in DOMAIN df_country : df_country[k].Country = c})
              = Len(raw.headers)
         /\ \A j \in DOMAIN raw.headers :
              Cardinality({k \in DOMAIN df_country :
                             /\ df_country[k].Country = c
                             /\ df_country[k].Date = to_datetime(raw.headers[j])}) = 1
    /\ Len(df_country) = Len(raw.headers) * Cardinality(RawCountries)
    /\ Range(clist) = RawCountries
    /\ \A i, j \in DOMAIN clist : i < j => clist[i] < clist[j]

\* A country with two sub-national rows, two date columns out of calendar order.
C5_Witness ==
  /\ tpc = "processed"
  /\ Len(raw.rows) = 2 /\ raw.rows[1].Country = raw.rows[2].Country
  /\ Len(raw.headers) = 2
  /\ to_datetime(raw.headers[1]) > to_datetime(raw.headers[2])
  /\ Len(df_country) = 2

\* C6: the long-table value at (c, d) is the sum of the raw table's date-d
\* cells over all raw rows whose country is c.
C6_SumsMatch ==
  Processed =>
    \A c \in RawCountries : \A j \in DOMAIN raw.headers :
      /\ \E k \in DOMAIN df_country :
           df_country[k].Country = c /\ df_country[k].Date = to_datetime(raw.headers[j])
      /\ \A k \in DOMAIN df_country :
           (df_country[k].Country = c /\ df_country[k].Date = to_datetime(raw.headers[j]))
             => df_country[k].Cases =
                  SumCells({i \in DOMAIN raw.rows : raw.rows[i].Country = c}, j)

\* Two sub-national rows of one country add up to 2 on some date.
C6_Witness ==
  /\ tpc = "processed"
  /\ Len(raw.rows) = 2 /\ raw.rows[1].Country = raw.rows[2].Country
  /\ \E k \in DOMAIN df_country : df_country[k].Cases = 2

\* C7: in the output of calculate_daily_cases, for whatever input row order,
\* the row of a country with no earlier date of that country has Daily = 0,
\* and every other row has Daily = Cases - Cases of the same country at its
\* previous date.
C7_DailyIsDifference ==
  tpc = "done" =>
    \A k \in DOMAIN daily_out :
      LET r == daily_out[k]
          Earlier == {q \in DOMAIN daily_out :
                        /\ daily_out[q].Country = r.Country
                        /\ daily_out[q].Date < r.Date}
      IN  IF Earlier = {} THEN r.Daily = 0
          ELSE LET p == CHOOSE q \in Earlier :
                          \A x \in Earlier : daily_out[x].Date <= daily_out[q].Date
               IN  r.Daily = r.Cases - daily_out[p].Cases

\* Two countries, the input not in date order, a non-zero difference.
C7_Witness ==
  /\ tpc = "done"
  /\ Cardinality({daily_out[k].Country : k \in DOMAIN daily_out}) = 2
  /\ Len(daily_in) = 4
  /\ daily_in[1].Date > daily_in[4].Date
  /\ \E k \in DOMAIN daily_out : daily_out[k].Daily < 0
  /\ \E k \in DOMAIN daily_out : daily_out[k].Daily > 0

Occurrences(s, c, d, v) ==
  Cardinality({k \in DOMAIN s : s[k].Country = c /\ s[k].Date = d /\ s[k].Cases = v})

\* C9: calculate_daily_cases only adds a field: across the call the output
\* has as many rows as the input, every (country, date, cases) row of the
\* input occurs in the output as often as in the input, and the table passed
\* in is unchanged.
C9_OnlyAddsField ==
  [][(tpc = "reordered" /\ tpc' = "done") =>
       /\ daily_in' = daily_in
       /\ df_country' = df_country
       /\ Len(daily_out') = Len(daily_in)
       /\ \A k \in DOMAIN daily_in :
            Occurrences(daily_out', daily_in[k].Country, daily_in[k].Date, daily_in[k].Cases)
              = Occurrences(daily_in, daily_in[k].Country, daily_in[k].Date, daily_in[k].Cases)
       /\ \A k \in DOMAIN daily_out' : DOMAIN daily_out'[k] = {"Country", "Date", "Cases", "Daily"}
    ]_vars

\* The call has run on a four-row table that was not in date order.
C9_Witness ==
  /\ tpc = "done"
  /\ Len(daily_in) = 4 /\ Len(daily_out) = 4
  /\ daily_in[1].Date > daily_in[2].Date
  /\ daily_out # daily_in

Returned(u) == IF u = CONFIRMED_URL THEN confirmed_df ELSE deaths_df
FetchPc(u)  == IF u = CONFIRMED_URL THEN "fetch_confirmed" ELSE "fetch_deaths"

\* C1: a fetch_data(url) call makes no network call and returns the stored
\* result of that URL when the cache holds an entry for the URL of age under
\* 3600 s; with no entry for the URL, or one whose age has reached 3600 s, it
\* makes a network call.
C1_CacheUse ==
  [][\A u \in URLs :
       (pc = FetchPc(u) /\ pc' # pc) =>
         IF cache[u].present /\ now - cache[u].t < TTL
         THEN net' = net /\ cache' = cache /\ Returned(u)' = cache[u].value
         ELSE u \notin net /\ net' = net \cup {u}
    ]_vars

\* A pass in which the confirmed entry had reached the time-to-live and was
\* read again, while the deaths entry, younger, was served from the cache.
C1_Witness ==
  /\ pc = "check"
  /\ net = {CONFIRMED_URL}
  /\ now >= TTL
  /\ cache[CONFIRMED_URL].t = now
  /\ cache[DEATHS_URL].present /\ now - cache[DEATHS_URL].t < TTL
  /\ deaths_df = cache[DEATHS_URL].value /\ deaths_df.ok
  /\ confirmed_df # deaths_df

\* C2: the fetch cache holds successful results only: no entry holds the
\* "no data" result of a failed read.
C2_CacheHoldsSuccessesOnly ==
  \A u \in URLs : cache[u].present => cache[u].value.ok

\* C3: in a pass where the confirmed or the deaths fetch returned no data,
\* main is over right after its check: an error message is on the page, no
\* exception was raised, and process_data, calculate_daily_cases, the charts
\* and the metric blocks have not run; the page shows no chart or metric.
C3_FailureHalts ==
  (pc \notin {"fetch_confirmed", "fetch_deaths", "check"}
     /\ (~confirmed_df.ok \/ ~deaths_df.ok)) =>
    /\ pc = "done"
    /\ screen.errors >= 1
    /\ screen.exception = "none"
    /\ ran = {}
    /\ confirmed_country_df = <<>> /\ deaths_country_df = <<>>
    /\ screen.charts = <<>> /\ screen.metrics = <<>>

\* A pass ended by a failed deaths fetch after a successful confirmed fetch,
\* at a time when an earlier pass has already run.
C3_Witness ==
  /\ pc = "done"
  /\ confirmed_df.ok /\ ~deaths_df.ok
  /\ now > 0
  /\ screen.errors = 2

\* C4: in a pass where both fetches succeeded and the multiselect returned
\* no country, main is over right after its check: the warning is on the
\* page and neither the filter, nor a chart, nor a metric block has run.
C4_EmptySelectionHalts ==
  ("widgets" \in ran /\ screen.exception = "none" /\ pc # "validate"
     /\ selected_countries = <<>>) =>
    /\ pc = "done"
    /\ screen.warning
    /\ ran \cap {"filter", "charts", "stats"} = {}
    /\ screen.charts = <<>> /\ screen.metrics = <<>>

C4_Witness ==
  /\ pc = "done"
  /\ confirmed_df.ok /\ deaths_df.ok
  /\ "widgets" \in ran
  /\ selected_countries = <<>>
  /\ screen.warning

\* The cumulative value of country c at its latest date in a daily table.
LatestCumulative(df, c) ==
  LET I == {k \in DOMAIN df : df[k].Country = c}
      k == CHOOSE x \in I : \A y \in I : df[y].Date <= df[x].Date
  IN  df[k].Cases

\* C8: a pass that has run the latest-statistics step has rendered exactly
\* one metric block per selected country, in order, whose Cases is the
\* country's cumulative value at its latest date in the case table and whose
\* Deaths is its cumulative value at its latest date in the death table.
C8_OneBlockPerCountry ==
  "stats" \in ran =>
    /\ Len(screen.metrics) = Len(selected_countries)
    /\ \A i \in DOMAIN selected_countries :
         LET c == selected_countries[i]
         IN  /\ screen.metrics[i].label = c
             /\ screen.metrics[i].value
                  = format_count(LatestCumulative(confirmed_country_df, c))
             /\ screen.metrics[i].delta
                  = format_count(LatestCumulative(deaths_country_df, c))

\* C10: when main reaches the latest-statistics step, every selected country
\* has a row in the filtered case table and in the filtered death table.
C10_LookupNeverEmpty ==
  pc = "stats" =>
    \A i \in DOMAIN selected_countries :
      /\ \E k \in DOMAIN confirmed_filtered :
           confirmed_filtered[k].Country = selected_countries[i]
      /\ \E k \in DOMAIN deaths_filtered :
           deaths_filtered[k].Country = selected_countries[i]

====
